---- MODULE Spec2Model ----
(***************************************************************************)
(* Model of install.py: the command runner _run (ordered shell directives, *)
(* "cd" special form, dependency-triggered single retry) and the xrandr    *)
(* layout routine monitor() with the _Monitor width-only comparisons.      *)
(*                                                                         *)
(* Spec     : a process that calls _run any number of times.               *)
(* SpecMon  : one call of monitor() on an adapter output drawn from a      *)
(*            bounded set of line sequences.                               *)
(***************************************************************************)
EXTENDS Integers, Sequences, FiniteSets, TLC

VARIABLES
    stack,     \* the active _run frames, innermost last
    cwd,       \* the working directory of the process
    status,    \* "idle", "running", "ok" (returned) or "fault" (raised)
    fault,     \* the exception that left the outermost call, "" if none
    call,      \* history: the arguments of the outermost _run call
    log,       \* history: what the current outermost call did, in order
    lastCd,    \* history: the directory named by the last completed cd
    lines,     \* monitor(): the lines of the adapter output
    idx,       \* monitor(): i + 1 of the scan loop
    monitors,  \* monitor(): the list of _Monitor objects
    mpc,       \* monitor(): "idle", "scan", "run" or "fault"
    command    \* monitor(): the command it built

vars == <<stack, cwd, status, fault, call, log, lastCd, lines, idx, monitors, mpc, command>>

monVars == <<lines, idx, monitors, mpc, command>>

(***************************************************************************)
(* Bounds of the model.                                                    *)
(***************************************************************************)
MaxLen == 3        \* longest batch handed to _run
MaxDepLen == 2     \* longest nested dependency list
MaxLines == 5      \* longest adapter output, in lines

(***************************************************************************)
(* Directives.  A command is a record: prog is the text up to the first    *)
(* blank, args what follows.  "cd <folder>" is the special form.           *)
(***************************************************************************)
\* Paths are sequences of components.
HOME_DIR == <<"/", "home", "user">>
InitialDir == <<"/">>

Folders == {<<"/", "opt", "yay">>, <<"~", ".venv">>}

\* batches change to ~/.venv, nested dependency lists to /opt/yay
CdCommands == {[prog |-> "cd", args |-> <<<<"~", ".venv">>>>]}
ShCommands == {[prog |-> "make", args |-> <<>>], [prog |-> "xclip", args |-> <<>>]}
Commands == CdCommands \cup ShCommands

\* _packages(list_of_packages): the single pacman directive it hands to _run
PacmanCommand == [prog |-> "pacman", args |-> <<>>]

\* command.startswith('cd')
StartsWithCd(c) == c.prog = "cd"

\* folder = command[3:]
Folder(c) == c.args[1]

\* mutant of _path: the folder is used as written
_pathVerbatim(path) == path

\* _path: a leading "~/" is replaced by the home directory
_path(path) == IF Head(path) = "~" THEN HOME_DIR \o Tail(path) ELSE path

Dirs == {InitialDir} \cup {_path(f) : f \in Folders}

SeqsUpTo(S, n) == UNION {[1..k -> S] : k \in 0..n}

Batches == SeqsUpTo(Commands, MaxLen)

(***************************************************************************)
(* Dependency actions: None, a _lazyfunction wrapping _packages, a list of *)
(* directives (possibly empty), or an object of some other type.           *)
(***************************************************************************)
NoDependencies == [type |-> "None", cmds |-> <<>>]
Routine == [type |-> "callable", cmds |-> <<PacmanCommand>>]
OtherObject == [type |-> "other", cmds |-> <<>>]
\* the directives of nested dependency lists
DepCommands == {PacmanCommand, [prog |-> "cd", args |-> <<<<"/", "opt", "yay">>>>]}
ListDependencies == {[type |-> "list", cmds |-> l] : l \in SeqsUpTo(DepCommands, MaxDepLen)}
Dependencies == {NoDependencies, Routine, OtherObject} \cup ListDependencies

\* mutant of Truthy: `if dependencies is not None:`
TruthyNotNone(d) == d.type # "None"

\* `if dependencies:` -- None and the empty list are falsy
Truthy(d) ==
    \/ d.type = "callable"
    \/ d.type = "other"
    \/ d.type = "list" /\ d.cmds # <<>>

\* callable(dependencies)
Callable(d) == d.type = "callable"

\* isinstance(dependencies, list)
IsList(d) == d.type = "list"

(***************************************************************************)
(* **kwargs of _run: the overrides of the subprocess options that matter   *)
(* for control flow.                                                       *)
(***************************************************************************)
NoKwargs == [check_false |-> FALSE, timeout |-> FALSE]
\* no override, check=False, or timeout=<seconds>
KwargsSet ==
    {NoKwargs, [NoKwargs EXCEPT !.check_false = TRUE], [NoKwargs EXCEPT !.timeout = TRUE]}

\* default_kwargs after default_kwargs.update(kwargs)
default_kwargs(kwargs) ==
    [shell |-> TRUE, check |-> ~kwargs.check_false, timeout |-> kwargs.timeout]

\* what subprocess.run can do with these options
RunOutcomes(opts) ==
    {"exit0", "nonzero", "OSError"} \cup (IF opts.timeout THEN {"TimeoutExpired"} ELSE {})

\* the exception subprocess.run raises, "" when it returns
Raised(outcome, opts) ==
    CASE outcome = "exit0" -> ""
      [] outcome = "nonzero" -> IF opts.check THEN "CalledProcessError" ELSE ""
      [] OTHER -> outcome

(***************************************************************************)
(* Call frames of _run.  wait tells what the frame is blocked on inside    *)
(* its except clause: the dependency action or the retry.                  *)
(***************************************************************************)
Frame(cmds, deps, kw, ctx) ==
    [commands |-> cmds, dependencies |-> deps, kwargs |-> kw,
     i |-> 1, wait |-> "none", ctx |-> ctx]

Top == stack[Len(stack)]
Running == stack # <<>>
InLoop == Running /\ Top.wait = "none" /\ Top.i <= Len(Top.commands)
Current == Top.commands[Top.i]

SetTop(f) == [stack EXCEPT ![Len(stack)] = f]

\* mutant of Caught: `except Exception`
CaughtAny(exc) == TRUE

\* `except subprocess.CalledProcessError`
Caught(exc) == exc = "CalledProcessError"

\* dependencies() -- _lazyfunction.__call__ -> _packages -> _run([pacman ...])
RoutineFrame(f) == Frame(f.dependencies.cmds, NoDependencies, NoKwargs, "dependency")

\* mutant of ListFrame: _run(dependencies, dependencies, **kwargs)
ListFrameKeepsDependencies(f) ==
    Frame(f.dependencies.cmds, f.dependencies, f.kwargs, "dependency")

\* _run(dependencies, **kwargs)
ListFrame(f) == Frame(f.dependencies.cmds, NoDependencies, f.kwargs, "dependency")

\* mutant of RetryFrame: _run([command], dependencies, **kwargs)
RetryFrameKeepsDependencies(f) ==
    Frame(<<f.commands[f.i]>>, f.dependencies, f.kwargs, "retry")

\* _run([command], **kwargs)
RetryFrame(f) == Frame(<<f.commands[f.i]>>, NoDependencies, f.kwargs, "retry")

\* history record of one step of the innermost frame
Event(ev, outcome, exc) ==
    [ev |-> ev, ctx |-> Top.ctx, i |-> Top.i, command |-> Current,
     outcome |-> outcome, exc |-> exc, cwd |-> cwd]

\* the directory a cd directive names, with the home directory written out
Target(c) ==
    IF c.args[1] = <<"~", ".venv">> THEN <<"/", "home", "user", ".venv">> ELSE c.args[1]

NoCall == [commands |-> <<>>, dependencies |-> NoDependencies, kwargs |-> NoKwargs,
           cwd |-> InitialDir]

\* mutant of Propagate: the exception is swallowed and the loop goes on
PropagateSwallowed(exc) ==
    /\ stack' = SetTop([Top EXCEPT !.i = @ + 1])
    /\ UNCHANGED <<status, fault>>

\* an exception leaves every active _run frame: nothing catches it
Propagate(exc) ==
    /\ stack' = <<>>
    /\ status' = "fault"
    /\ fault' = exc

NoCommand == [prog |-> "", args |-> <<>>]

Init ==
    /\ stack = <<>>
    /\ cwd = InitialDir
    /\ status = "idle"
    /\ fault = ""
    /\ call = NoCall
    /\ log = <<>>
    /\ lastCd = InitialDir
    /\ lines = <<>>
    /\ idx = 1
    /\ monitors = <<>>
    /\ mpc = "idle"
    /\ command = NoCommand

\* a recipe calls _run(commands, dependencies, **kwargs)
Call ==
    /\ status = "idle"
    /\ mpc = "idle"
    /\ \E cmds \in Batches, deps \in Dependencies, kw \in KwargsSet :
          /\ stack' = <<Frame(cmds, deps, kw, "batch")>>
          /\ call' = [commands |-> cmds, dependencies |-> deps, kwargs |-> kw, cwd |-> cwd]
    /\ status' = "running"
    /\ fault' = ""
    /\ log' = <<>>
    /\ UNCHANGED <<cwd, lastCd>>
    /\ UNCHANGED monVars

\* the cd branch of the loop body: os.chdir(_path(folder))
Chdir ==
    /\ InLoop
    /\ StartsWithCd(Current)
    /\ \E ok \in BOOLEAN :
          IF ok
          THEN /\ cwd' = _path(Folder(Current))
               /\ lastCd' = Target(Current)
               /\ log' = Append(log, Event("chdir", "ok", ""))
               /\ stack' = SetTop([Top EXCEPT !.i = @ + 1])
               /\ UNCHANGED <<status, fault>>
          ELSE /\ log' = Append(log, Event("chdir", "OSError", "OSError"))
               /\ Propagate("OSError")
               /\ UNCHANGED <<cwd, lastCd>>
    /\ UNCHANGED call
    /\ UNCHANGED monVars

\* the else branch of the loop body: subprocess.run and its except clause
Subprocess ==
    /\ InLoop
    /\ ~StartsWithCd(Current)
    /\ LET opts == default_kwargs(Top.kwargs) IN
       \E outcome \in RunOutcomes(opts) :
          LET exc == Raised(outcome, opts)
              ran == Append(log, Event("run", outcome, exc))
          IN  IF exc = ""
              THEN /\ log' = ran
                   /\ stack' = SetTop([Top EXCEPT !.i = @ + 1])
                   /\ UNCHANGED <<status, fault>>
              ELSE IF Caught(exc) /\ Truthy(Top.dependencies)
              THEN IF Callable(Top.dependencies)
                   THEN /\ log' = Append(ran, Event("dependency", "callable", ""))
                        /\ stack' = Append(SetTop([Top EXCEPT !.wait = "dependency"]),
                                           RoutineFrame(Top))
                        /\ UNCHANGED <<status, fault>>
                   ELSE IF IsList(Top.dependencies)
                   THEN /\ log' = Append(ran, Event("dependency", "list", ""))
                        /\ stack' = Append(SetTop([Top EXCEPT !.wait = "dependency"]),
                                           ListFrame(Top))
                        /\ UNCHANGED <<status, fault>>
                   ELSE /\ log' = ran
                        /\ Propagate("TypeError")
              ELSE /\ log' = ran
                   /\ Propagate(exc)
    /\ UNCHANGED <<cwd, lastCd, call>>
    /\ UNCHANGED monVars

\* the for loop of the top frame is exhausted: _run returns to its caller
Return ==
    /\ Running
    /\ Top.wait = "none"
    /\ Top.i > Len(Top.commands)
    /\ LET rest == SubSeq(stack, 1, Len(stack) - 1) IN
       IF rest = <<>>
       THEN /\ stack' = <<>>
            /\ status' = "ok"
       ELSE LET caller == rest[Len(rest)] IN
            IF caller.wait = "dependency"
            THEN \* the dependency action returned: the retry
                 /\ stack' = Append([rest EXCEPT ![Len(rest)].wait = "retry"],
                                    RetryFrame(caller))
                 /\ UNCHANGED status
            ELSE \* the retry returned: the except clause ends, next directive
                 /\ stack' = [rest EXCEPT ![Len(rest)].wait = "none",
                                          ![Len(rest)].i = @ + 1]
                 /\ UNCHANGED status
    /\ UNCHANGED <<cwd, fault, call, log, lastCd>>
    /\ UNCHANGED monVars

\* the recipe that called _run goes on: after the return, or after its own
\* `except: pass` swallowed the fault; the next _run call may follow
RecipeContinues ==
    /\ status \in {"ok", "fault"}
    /\ mpc = "idle"
    /\ status' = "idle"
    /\ fault' = ""
    /\ log' = <<>>
    /\ call' = NoCall
    /\ UNCHANGED <<stack, cwd, lastCd>>
    /\ UNCHANGED monVars

Next == Call \/ Chdir \/ Subprocess \/ Return \/ RecipeContinues

Spec == Init /\ [][Next]_vars

(***************************************************************************)
(* Properties of _run, stated on the history of the outermost call.        *)
(***************************************************************************)
Last == Len(log)
IsExec(e) == e.ev \in {"run", "chdir"}
Faulted(e) == e.exc # ""
\* a subprocess that exited nonzero under "fail on nonzero exit"
Failed(e) == e.ev = "run" /\ e.outcome = "nonzero" /\ e.exc = "CalledProcessError"
\* the fault of step k left _run: nothing ran after it
Aborted(k) == k = Last /\ status = "fault" /\ fault = log[k].exc /\ stack = <<>>
Frames == {stack[n] : n \in DOMAIN stack}
Present(d) == d.type = "callable" \/ (d.type = "list" /\ d.cmds # <<>>)

C2_RoutineRetryOnce ==
    call.dependencies.type = "callable" =>
        /\ \A f \in Frames : f.ctx = "retry" =>
               f.dependencies = NoDependencies /\ Len(f.commands) = 1
        /\ \A k \in DOMAIN log :
            /\ log[k].ev = "dependency" =>
                  /\ k > 1
                  /\ Failed(log[k - 1])
                  /\ log[k - 1].ctx = "batch"
                  /\ log[k - 1].i = log[k].i
                  /\ \A j \in DOMAIN log :
                        (log[j].ev = "dependency" /\ log[j].i = log[k].i) => j = k
                  /\ (k + 1 <= Last /\ ~Faulted(log[k + 1])
                        /\ (k + 1 < Last \/ status \in {"ok", "fault"}))
                        => (k + 2 <= Last /\ log[k + 2].ctx = "retry")
            /\ (log[k].ctx = "batch" /\ Failed(log[k])) =>
                  (k < Last /\ log[k + 1].ev = "dependency")
            /\ log[k].ctx = "retry" =>
                  /\ k > 2
                  /\ log[k - 2].ev = "dependency"
                  /\ log[k - 1].ctx = "dependency"
                  /\ ~Faulted(log[k - 1])
                  /\ log[k].ev = "run"
                  /\ log[k].i = 1
                  /\ log[k].command = call.commands[log[k - 2].i]
                  /\ Faulted(log[k]) => Aborted(k)
                  /\ (~Faulted(log[k]) /\ k < Last) =>
                        /\ log[k + 1].ctx = "batch"
                        /\ IsExec(log[k + 1])
                        /\ log[k + 1].i = log[k - 2].i + 1
        /\ status = "fault" => (Last > 0 /\ Faulted(log[Last]))
        /\ status = "ok" =>
               {log[k].i : k \in {j \in DOMAIN log : log[j].ctx = "batch"}}
                   = 1..Len(call.commands)

C2_Witness ==
    /\ call.dependencies.type = "callable"
    /\ status = "ok"
    /\ Last = 5
    /\ log[1].ctx = "batch" /\ Failed(log[1])
    /\ log[2].ev = "dependency"
    /\ log[3].ctx = "dependency"
    /\ log[4].ctx = "retry" /\ ~Faulted(log[4])
    /\ log[5].ctx = "batch" /\ log[5].i = 2

\* what C3 says of a call whose dependency is a nested list: after a failing
\* directive the list is run first, in order and with no dependency, then the
\* failing directive once more, and the call goes on when both succeeded
NestedListThenRetry ==
    LET n == Len(call.dependencies.cmds) IN
    /\ \A f \in Frames : f.ctx \in {"retry", "dependency"} =>
           f.dependencies = NoDependencies
    /\ \A k \in DOMAIN log :
        /\ (log[k].ctx = "batch" /\ Failed(log[k])) =>
              (k < Last /\ log[k + 1].ev = "dependency")
        /\ log[k].ev = "dependency" =>
              /\ k > 1
              /\ Failed(log[k - 1])
              /\ log[k - 1].ctx = "batch"
              /\ \A j \in 1..n : k + j <= Last =>
                    /\ log[k + j].ctx = "dependency"
                    /\ IsExec(log[k + j])
                    /\ log[k + j].i = j
                    /\ log[k + j].command = call.dependencies.cmds[j]
                    /\ Faulted(log[k + j]) => Aborted(k + j)
              /\ (k + n <= Last /\ ~Faulted(log[k + n])
                    /\ (k + n < Last \/ status \in {"ok", "fault"}))
                    => (k + n + 1 <= Last /\ log[k + n + 1].ctx = "retry")
              /\ k + n + 1 <= Last =>
                    /\ log[k + n + 1].ctx = "retry"
                    /\ log[k + n + 1].ev = "run"
                    /\ log[k + n + 1].command = log[k - 1].command
                    /\ Faulted(log[k + n + 1]) => Aborted(k + n + 1)
                    /\ ~Faulted(log[k + n + 1]) =>
                          ~(status = "fault" /\ Last = k + n + 1)
              /\ k + n + 2 <= Last =>
                    /\ log[k + n + 2].ctx = "batch"
                    /\ IsExec(log[k + n + 2])
                    /\ log[k + n + 2].i = log[k].i + 1
        /\ log[k].ctx = "retry" =>
              (k > n + 1 /\ log[k - n - 1].ev = "dependency")

\* C3 as claimed: for every nested list, the empty one included
C3_EveryNestedList ==
    call.dependencies.type = "list" => NestedListThenRetry

\* C3 as the code has it: every non-empty nested list is run in order, with no
\* dependency, before the single retry of the failing directive; an empty nested
\* list counts as no dependency, the fault of the first attempt leaves _run.
C3_NonEmptyNestedList ==
    call.dependencies.type = "list" =>
        IF call.dependencies.cmds # <<>>
        THEN NestedListThenRetry
        ELSE \A k \in DOMAIN log :
                /\ log[k].ctx = "batch"
                /\ IsExec(log[k])
                /\ Failed(log[k]) => (Aborted(k) /\ fault = "CalledProcessError")

C3_Witness ==
    /\ call.dependencies.type = "list"
    /\ Len(call.dependencies.cmds) = 2
    /\ status = "ok"
    /\ Last = 5
    /\ Failed(log[1])
    /\ log[2].ev = "dependency"
    /\ log[3].ctx = "dependency" /\ log[3].i = 1
    /\ log[4].ctx = "dependency" /\ log[4].i = 2
    /\ log[5].ctx = "retry" /\ log[5].command = log[1].command

\* the working directory before step k of the current call: the directory
\* named by the latest completed cd among the steps before k, and the
\* directory the call started in when there is none
RECURSIVE CwdBefore(_)
CwdBefore(k) ==
    IF k = 1 THEN call.cwd
    ELSE IF log[k - 1].ev = "chdir" /\ ~Faulted(log[k - 1])
         THEN Target(log[k - 1].command)
         ELSE CwdBefore(k - 1)

\* C4: the working directory is always the directory named by the last cd
\* directive that was carried out, in this call or an earlier one, whatever
\* faults followed; every directive (of the batch, of a nested list, the
\* retry) starts in that directory; a cd directive is never handed to
\* subprocess.run and only cd directives are handed to os.chdir.
C4_WorkingDirectory ==
    /\ cwd = lastCd
    /\ status # "idle" => (call.cwd \in Dirs /\ cwd = CwdBefore(Last + 1))
    /\ \A k \in DOMAIN log :
        /\ log[k].cwd = CwdBefore(k)
        /\ StartsWithCd(log[k].command) <=> log[k].ev = "chdir"

C4_Witness ==
    /\ status = "fault"
    /\ call.cwd = <<"/", "opt", "yay">>
    /\ Last = 3
    /\ log[1].ev = "chdir" /\ ~Faulted(log[1])
    /\ cwd = <<"/", "home", "user", ".venv">>
    /\ log[2].ev = "run" /\ log[2].cwd = cwd
    /\ log[3].ev = "chdir" /\ Faulted(log[3])

\* C5: a fault raised while the dependency action runs (the routine's
\* directive or a directive of the nested list faults) is the last thing the
\* call does: it leaves _run, nothing is retried or remediated, no directive
\* of the batch follows; the dependency action itself runs with no dependency.
C5_DependencyFaultPropagates ==
    /\ \A f \in Frames : f.ctx = "dependency" => f.dependencies = NoDependencies
    /\ \A k \in DOMAIN log :
          (log[k].ctx = "dependency" /\ Faulted(log[k])) => Aborted(k)

C5_Witness ==
    /\ status = "fault"
    /\ Last = 4
    /\ call.dependencies.type = "list"
    /\ Len(call.commands) = 3
    /\ log[1].ctx = "batch" /\ Failed(log[1])
    /\ log[3].ctx = "dependency"
    /\ log[4].ctx = "dependency" /\ Failed(log[4])

\* C9 as claimed: every fault of a non-cd directive of the batch is answered
\* with the dependency action when one is present, and leaves _run when none
\* was given.
C9_EveryFaultConsultsDependency ==
    \A k \in DOMAIN log :
        (log[k].ctx = "batch" /\ log[k].ev = "run" /\ Faulted(log[k])) =>
            /\ Present(call.dependencies) => (k < Last /\ log[k + 1].ev = "dependency")
            /\ call.dependencies = NoDependencies => Aborted(k)

\* C9 as the code has it: only a nonzero exit (CalledProcessError) makes _run
\* consult the dependency -- the action is invoked when present, the fault
\* leaves _run when none was given; every other execution fault (OSError,
\* TimeoutExpired) leaves _run at once, a present dependency action included.
C9_OnlyNonzeroExitConsultsDependency ==
    \A k \in DOMAIN log :
        (log[k].ctx = "batch" /\ log[k].ev = "run" /\ Faulted(log[k])) =>
            IF log[k].exc = "CalledProcessError"
            THEN /\ Present(call.dependencies) =>
                        (k < Last /\ log[k + 1].ev = "dependency")
                 /\ call.dependencies = NoDependencies => Aborted(k)
            ELSE Aborted(k)

C9_Witness ==
    /\ Present(call.dependencies)
    /\ status = "fault"
    /\ fault = "TimeoutExpired"
    /\ Last = 1
    /\ log[1].ctx = "batch"
    /\ Len(call.commands) > 1

(***************************************************************************)
(* monitor(): the adapter output is a sequence of lines.  A line is what   *)
(* the two regular expressions find on it: conn is the result of           *)
(* re.findall(r'^([\w-]+) connected', line), res the result of             *)
(* re.findall(r'[\s]*(\d+)x(\d+)', line), a list of (width, height) pairs  *)
(* of digit strings.                                                       *)
(***************************************************************************)
Mode1920x1080 == <<<<1, 9, 2, 0>>, <<1, 0, 8, 0>>>>
Mode1366x768 == <<<<1, 3, 6, 6>>, <<7, 6, 8>>>>
Mode1920x1200 == <<<<1, 9, 2, 0>>, <<1, 2, 0, 0>>>>

\* "HDMI-1 connected (normal left inverted right x axis y axis)"
ConnectedLine == [conn |-> <<"HDMI-1">>, res |-> <<>>]
\* "eDP-1 connected primary 1920x1080+0+0 (normal ...) 344mm x 194mm"
ActiveLine == [conn |-> <<"eDP-1">>, res |-> <<Mode1920x1080>>]
\* "   1920x1080     60.00*+"
ModeLine(m) == [conn |-> <<>>, res |-> <<m>>]
\* "Screen 0: minimum 8 x 8, ...", "DP-1 disconnected (normal ...)"
OtherLine == [conn |-> <<>>, res |-> <<>>]

LineSet ==
    {ConnectedLine, ActiveLine, OtherLine,
     ModeLine(Mode1920x1080), ModeLine(Mode1366x768), ModeLine(Mode1920x1200)}

Outputs == SeqsUpTo(LineSet, MaxLines)

\* int() of a digit string
RECURSIVE ToInt(_)
ToInt(ds) ==
    IF ds = <<>> THEN 0
    ELSE 10 * ToInt(SubSeq(ds, 1, Len(ds) - 1)) + ds[Len(ds)]

\* _Monitor.__init__
_Monitor(name, width, height) ==
    [name |-> name, width |-> ToInt(width), height |-> ToInt(height),
     x |-> 0, y |-> 0, primary |-> FALSE]

\* mutant of __lt__: the comparison is the wrong way round
__lt__Reversed(self, other) == self.width > other.width

\* _Monitor.__lt__ and _Monitor.__gt__
__lt__(self, other) == self.width < other.width
__gt__(self, other) == self.width > other.width

\* min(monitors): index of the first element no later element is __lt__
RECURSIVE MinFrom(_, _, _)
MinFrom(ms, best, j) ==
    IF j > Len(ms) THEN best
    ELSE MinFrom(ms, IF __lt__(ms[j], ms[best]) THEN j ELSE best, j + 1)
Min(ms) == MinFrom(ms, 1, 2)

\* max(monitors): index of the first element no later element is __gt__
RECURSIVE MaxFrom(_, _, _)
MaxFrom(ms, best, j) ==
    IF j > Len(ms) THEN best
    ELSE MaxFrom(ms, IF __gt__(ms[j], ms[best]) THEN j ELSE best, j + 1)
Max(ms) == MaxFrom(ms, 1, 2)

\* _Monitor.__str__: one placement clause
__str__(self) ==
    [output |-> self.name, primary |-> self.primary,
     mode |-> <<self.width, self.height>>, pos |-> <<self.x, self.y>>]

AutoCommand == [prog |-> "xrandr --auto", args |-> <<>>]

\* the layout branch: the list after below/above were chosen and below mutated
Arrange(ms) ==
    LET below == Min(ms)
        above == Max(ms)
        m1 == [ms EXCEPT ![below].primary = TRUE]
        m2 == [m1 EXCEPT ![below].x = (m1[above].width \div 2) - (m1[below].width \div 2)]
    IN  [m2 EXCEPT ![below].y = m2[above].height]

LayoutCommand(ms) ==
    [prog |-> "xrandr", args |-> [k \in 1..Len(ms) |-> __str__(ms[k])]]

\* monitor() is entered with the output of "xrandr -q --current"
InitMon ==
    /\ stack = <<>>
    /\ cwd = InitialDir
    /\ status = "idle"
    /\ fault = ""
    /\ call = NoCall
    /\ log = <<>>
    /\ lastCd = InitialDir
    /\ lines \in Outputs
    /\ idx = 1
    /\ monitors = <<>>
    /\ mpc = "scan"
    /\ command = NoCommand

\* one iteration of `for i, line in enumerate(lines)`; idx = i + 1
Scan ==
    /\ mpc = "scan"
    /\ idx <= Len(lines)
    /\ LET match == lines[idx].conn IN
       IF match # <<>> /\ idx - 1 < Len(lines)
       THEN IF idx + 1 > Len(lines)
            THEN \* lines[i+1] is out of range
                 /\ mpc' = "fault"
                 /\ fault' = "IndexError"
                 /\ status' = "fault"
                 /\ UNCHANGED <<idx, monitors>>
            ELSE LET res_match == lines[idx + 1].res IN
                 /\ monitors' = IF res_match # <<>>
                                THEN Append(monitors, _Monitor(match[1], res_match[1][1],
                                                               res_match[1][2]))
                                ELSE monitors
                 /\ idx' = idx + 1
                 /\ UNCHANGED <<mpc, fault, status>>
       ELSE /\ idx' = idx + 1
            /\ UNCHANGED <<monitors, mpc, fault, status>>
    /\ UNCHANGED <<stack, cwd, call, log, lastCd, lines, command>>

\* after the loop: the decision on len(monitors) and _run([command])
Layout ==
    /\ mpc = "scan"
    /\ idx > Len(lines)
    /\ LET ms == IF Len(monitors) # 2 THEN monitors ELSE Arrange(monitors)
           cmd == IF Len(monitors) # 2 THEN AutoCommand ELSE LayoutCommand(ms)
       IN  /\ monitors' = ms
           /\ command' = cmd
           /\ stack' = <<Frame(<<cmd>>, NoDependencies, NoKwargs, "batch")>>
           /\ call' = [commands |-> <<cmd>>, dependencies |-> NoDependencies,
                       kwargs |-> NoKwargs, cwd |-> cwd]
    /\ mpc' = "run"
    /\ status' = "running"
    /\ UNCHANGED <<cwd, fault, log, lastCd, lines, idx>>

NextMon == Scan \/ Layout \/ Subprocess \/ Return

SpecMon == InitMon /\ [][NextMon]_vars

(***************************************************************************)
(* Properties of monitor(), stated on the adapter output it was given.     *)
(***************************************************************************)
\* the number a digit string of the adapter output denotes
NumberOf(ds) ==
    CASE ds = <<1, 9, 2, 0>> -> 1920
      [] ds = <<1, 0, 8, 0>> -> 1080
      [] ds = <<1, 3, 6, 6>> -> 1366
      [] ds = <<7, 6, 8>> -> 768
      [] ds = <<1, 2, 0, 0>> -> 1200

\* the connected outputs among the first k lines whose following line holds
\* a WxH token, in order, with the first token of that line
RECURSIVE DetectedUpTo(_, _)
DetectedUpTo(ls, k) ==
    IF k = 0 THEN <<>>
    ELSE LET before == DetectedUpTo(ls, k - 1) IN
         IF k < Len(ls) /\ ls[k].conn # <<>> /\ ls[k + 1].res # <<>>
         THEN Append(before, [name |-> ls[k].conn[1],
                              width |-> NumberOf(ls[k + 1].res[1][1]),
                              height |-> NumberOf(ls[k + 1].res[1][2])])
         ELSE before

Detected == DetectedUpTo(lines, Len(lines))

\* monitor() handed cmd to _run as its single directive
Handed(cmd) == mpc = "run" /\ call.commands = <<cmd>> /\ call.dependencies = NoDependencies

C7_AutoIffNotTwo ==
    mpc \in {"run", "fault"} =>
        /\ Handed(AutoCommand) <=> Len(Detected) # 2
        /\ Len(Detected) = 2 =>
              /\ Handed(command)
              /\ Len(command.args) = 2
              /\ \A k \in 1..2 : command.args[k].output = Detected[k].name

\* C8: the scan never raises: a connected line with no WxH token available
\* on the following line, the last line of the output included, is skipped.
C8_ParseMissNeverRaises ==
    mpc # "fault" /\ fault # "IndexError"

\* C10: in every two-monitor layout below and above are different monitors
\* with below.width <= above.width, below is the only primary one, its x is
\* above.width div 2 - below.width div 2 >= 0 and its y is the height of the
\* other monitor.
C10_BelowAndAboveDiffer ==
    (mpc = "run" /\ Len(monitors) = 2) =>
        LET below == Min(monitors)
            above == Max(monitors)
            other == 3 - below
        IN  /\ below # above
            /\ monitors[below].width <= monitors[above].width
            /\ monitors[below].primary
            /\ ~monitors[other].primary
            /\ monitors[below].x =
                  (monitors[above].width \div 2) - (monitors[below].width \div 2)
            /\ monitors[below].x >= 0
            /\ monitors[below].y = monitors[other].height

\* the placement rectangle [x, x+width) x [y, y+height) of a clause
Left(c) == c.pos[1]
Right(c) == c.pos[1] + c.mode[1]
Upper(c) == c.pos[2]
Lower(c) == c.pos[2] + c.mode[2]
Overlap(c, d) ==
    /\ Left(c) < Right(d) /\ Left(d) < Right(c)
    /\ Upper(c) < Lower(d) /\ Upper(d) < Lower(c)

\* C11: in every two-monitor layout handed to _run the two placement
\* rectangles do not overlap: exactly one clause is primary, the other one
\* sits at (0,0), and the primary one starts at or below its bottom edge.
C11_RectanglesDisjoint ==
    (mpc = "run" /\ command.prog = "xrandr" /\ Len(command.args) = 2) =>
        /\ ~Overlap(command.args[1], command.args[2])
        /\ \E p \in 1..2 :
              LET q == 3 - p IN
              /\ command.args[p].primary
              /\ ~command.args[q].primary
              /\ command.args[q].pos = <<0, 0>>
              /\ Upper(command.args[p]) >= Lower(command.args[q])

====
